---------------------------- MODULE Spec2Model ----------------------------
(***************************************************************************)
(* Miller-Rabin primality testing (index.js) and the Montgomery reduction  *)
(* engine with its numeric utilities (bitLength, gcd, invert,              *)
(* reductionContextFor, reduce, invReduce, sqr, mul, pow).                 *)
(*                                                                         *)
(* Three state machines share the module, each idle in the others' runs:   *)
(*   Spec      one call of testPrimality(n, numRounds), statement by       *)
(*             statement, the random bit strings chosen nondeterministically*)
(*   FairSpec  the same with the fairness of a fair randomness source      *)
(*   MontSpec  the Montgomery engine applied to bounded operands           *)
(*   GcdSpec   the binary gcd, one loop iteration per step                 *)
(***************************************************************************)
EXTENDS Integers, Sequences, FiniteSets

VARIABLES
    \* ---- testPrimality (index.js) ----
    pc,             \* position in testPrimality
    n,              \* the candidate (after new BN(n))
    numRounds,      \* the number of rounds asked for
    nBits,          \* n.bitLength()
    nSub,           \* n - 1
    r,              \* multiplicity of 2 in n - 1
    d,              \* (n - 1) / 2^r
    round,          \* the for loop's counter
    base,           \* the value drawn last by the sampler
    x,              \* base^(d*2^j) mod n
    i,              \* the squaring loop's counter
    probablePrime,  \* local flag
    witness,        \* local witness
    result,         \* <<>> until the promise is resolved, then <<MillerRabinResult>>
    \* ---- Montgomery engine ----
    mpc,            \* position in the engine's call sequence
    mbase,          \* the modulus asked for
    ctx,            \* <<>> or <<MontgomeryReductionContext>>
    ma, mb, mexp,   \* ordinary operands and exponent
    mra, mrb,       \* their Montgomery forms
    mprod,          \* Montgomery-form result of mul / pow
    mout,           \* invReduce of mprod
    \* ---- gcd ----
    gpc,            \* position in gcd
    ga0, gb0,       \* the arguments of the call
    ga, gb,         \* the parameters a and b as the function updates them
    sharedTwoFactors,
    gres            \* the returned value

mrvars   == <<pc, n, numRounds, nBits, nSub, r, d, round, base, x, i,
              probablePrime, witness, result>>
montvars == <<mpc, mbase, ctx, ma, mb, mexp, mra, mrb, mprod, mout>>
gcdvars  == <<gpc, ga0, gb0, ga, gb, sharedTwoFactors, gres>>
vars     == <<mrvars, montvars, gcdvars>>

-----------------------------------------------------------------------------
(* Bounds of the model *)
MaxN      == 91     \* candidates 0..MaxN
MaxFairN  == 16     \* candidates 0..MaxFairN of the runs checked for completion
MaxRounds == 2      \* numRounds in 1..MaxRounds
MaxMod    == 13     \* moduli 1..MaxMod
MaxExp    == 5      \* exponents 0..MaxExp
MaxGcd    == 12     \* gcd arguments 0..MaxGcd

(* null: no witness, a local not yet assigned *)
Null == -1

-----------------------------------------------------------------------------
(* Numeric utilities *)

\* n.toString(2).length: "0" has length 1
RECURSIVE bitLength(_)
bitLength(v) == IF v < 2 THEN 1 ELSE 1 + bitLength(v \div 2)

\* n.bitLength() of a BN: the position of the highest set bit, 0 for 0
BNbitLength(v) == IF v = 0 THEN 0 ELSE bitLength(v)

\* the scan for the least significant 1 bit, from position m upward
RECURSIVE lowestSetBit(_, _)
lowestSetBit(v, m) ==
    IF (v \div (2^m)) % 2 = 1 THEN m ELSE lowestSetBit(v, m + 1)

zeroBits_lsbFrom1(v) == IF v = 0 THEN 0 ELSE lowestSetBit(v, 1)

\* nSub.zeroBits(): the number of trailing zero bits, 0 for 0
zeroBits(v) == IF v = 0 THEN 0 ELSE lowestSetBit(v, 0)

oddPart_notDivided(nsub, rr) == nsub

\* nSub.div(new BN("2").pow(new BN(r)))
oddPart(nsub, rr) == nsub \div (2^rr)

-----------------------------------------------------------------------------
(* testPrimality *)

MillerRabinResult(nn, pp, w) == [n |-> nn, probablePrime |-> pp, witness |-> w]

\* getRandomBitString(numBits): every string of numBits bits
BitStrings(numBits) == [1..numBits -> {0, 1}]

\* new BN(bits, 2): the most significant bit first
RECURSIVE ParseBits(_, _)
ParseBits(bits, len) ==
    IF len = 0 THEN 0 ELSE 2 * ParseBits(bits, len - 1) + bits[len]

\* the do-while's exit: !( !base.gtn(2) || !base.lt(nSub) )
Retained(b, nsub) == b > 2 /\ b < nsub

\* base.pow(d).mod(n), reduced at every multiplication
RECURSIVE PowMod(_, _, _)
PowMod(b, e, m) == IF e = 0 THEN 1 % m ELSE (b * PowMod(b, e - 1, m)) % m

RoundPasses_onlyOne(xx, nsub) == xx = 1

\* x.eqn(1) || x.eq(nSub)
RoundPasses(xx, nsub) == xx = 1 \/ xx = nsub

LoopExhausted_gt(ii, rr) == ii > rr

\* i === r
LoopExhausted(ii, rr) == ii = rr

InitMR ==
    /\ pc = "start"
    /\ n \in 0..MaxN
    /\ numRounds \in 1..MaxRounds
    /\ nBits = Null /\ nSub = Null /\ r = Null /\ d = Null
    /\ round = Null /\ base = Null /\ x = Null /\ i = Null
    /\ probablePrime = TRUE /\ witness = Null
    /\ result = <<>>

\* lines 49-51: n = 0 or 1
SmallComposite ==
    /\ UNCHANGED <<montvars, gcdvars>>
    /\ pc = "start" /\ n < 2
    /\ result' = <<MillerRabinResult(n, FALSE, Null)>>
    /\ pc' = "done"
    /\ UNCHANGED <<n, numRounds, nBits, nSub, r, d, round, base, x, i,
                   probablePrime, witness>>

\* lines 52-54: n = 2 or 3
SmallPrime ==
    /\ UNCHANGED <<montvars, gcdvars>>
    /\ pc = "start" /\ n >= 2 /\ n < 4
    /\ result' = <<MillerRabinResult(n, TRUE, Null)>>
    /\ pc' = "done"
    /\ UNCHANGED <<n, numRounds, nBits, nSub, r, d, round, base, x, i,
                   probablePrime, witness>>

\* lines 57-67: factor n - 1 = d * 2^r, initialise the locals, enter the for loop
Setup ==
    /\ UNCHANGED <<montvars, gcdvars>>
    /\ pc = "start" /\ n >= 4
    /\ nBits' = BNbitLength(n)
    /\ nSub' = n - 1
    /\ r' = zeroBits(n - 1)
    /\ d' = oddPart(n - 1, zeroBits(n - 1))
    /\ probablePrime' = TRUE
    /\ witness' = Null
    /\ round' = 0
    /\ pc' = "for"
    /\ UNCHANGED <<n, numRounds, base, x, i, result>>

\* line 67: round < numRounds
ForTest ==
    /\ UNCHANGED <<montvars, gcdvars>>
    /\ pc = "for"
    /\ pc' = IF round < numRounds THEN "sample" ELSE "resolve"
    /\ UNCHANGED <<n, numRounds, nBits, nSub, r, d, round, base, x, i,
                   probablePrime, witness, result>>

\* lines 70-72: a drawn value the do-while keeps
SampleRetain ==
    /\ UNCHANGED <<montvars, gcdvars>>
    /\ pc = "sample"
    /\ \E bits \in BitStrings(nBits) :
          /\ Retained(ParseBits(bits, nBits), nSub)
          /\ base' = ParseBits(bits, nBits)
    /\ pc' = "test"
    /\ UNCHANGED <<n, numRounds, nBits, nSub, r, d, round, x, i,
                   probablePrime, witness, result>>

\* lines 70-72: a drawn value the do-while rejects; it draws again
SampleRetry ==
    /\ UNCHANGED <<montvars, gcdvars>>
    /\ pc = "sample"
    /\ \E bits \in BitStrings(nBits) :
          /\ ~Retained(ParseBits(bits, nBits), nSub)
          /\ base' = ParseBits(bits, nBits)
    /\ pc' = "sample"
    /\ UNCHANGED <<n, numRounds, nBits, nSub, r, d, round, x, i,
                   probablePrime, witness, result>>

\* lines 74-75: x = base^d mod n; continue when it is 1 or n - 1
FirstPower ==
    /\ UNCHANGED <<montvars, gcdvars>>
    /\ pc = "test"
    /\ LET xx == PowMod(base, d, n) IN
          IF RoundPasses(xx, nSub)
          THEN /\ round' = round + 1
               /\ x' = Null /\ i' = Null
               /\ pc' = "for"
          ELSE /\ x' = xx
               /\ i' = 0
               /\ round' = round
               /\ pc' = "loop"
    /\ UNCHANGED <<n, numRounds, nBits, nSub, r, d, base,
                   probablePrime, witness, result>>

\* lines 79-90: one iteration of the squaring loop
Square ==
    /\ UNCHANGED <<montvars, gcdvars>>
    /\ pc = "loop" /\ i < r
    /\ LET xx == (x * x) % n IN
          /\ x' = xx
          /\ IF xx = 1
             THEN /\ probablePrime' = FALSE
                  /\ witness' = base
                  /\ i' = i
                  /\ pc' = "resolve"
             ELSE IF xx = nSub
             THEN /\ i' = i
                  /\ pc' = "after"
                  /\ UNCHANGED <<probablePrime, witness>>
             ELSE /\ i' = i + 1
                  /\ pc' = "loop"
                  /\ UNCHANGED <<probablePrime, witness>>
    /\ UNCHANGED <<n, numRounds, nBits, nSub, r, d, round, base, result>>

\* line 79: i < r fails, the loop ends
LoopEnd ==
    /\ UNCHANGED <<montvars, gcdvars>>
    /\ pc = "loop" /\ ~(i < r)
    /\ pc' = "after"
    /\ UNCHANGED <<n, numRounds, nBits, nSub, r, d, round, base, x, i,
                   probablePrime, witness, result>>

\* lines 92-96: the loop ran out without reaching n - 1
AfterLoop ==
    /\ UNCHANGED <<montvars, gcdvars>>
    /\ pc = "after"
    /\ IF LoopExhausted(i, r)
       THEN /\ probablePrime' = FALSE
            /\ witness' = base
            /\ pc' = "resolve"
            /\ UNCHANGED <<round, x, i>>
       ELSE /\ round' = round + 1
            /\ x' = Null /\ i' = Null
            /\ pc' = "for"
            /\ UNCHANGED <<probablePrime, witness>>
    /\ UNCHANGED <<n, numRounds, nBits, nSub, r, d, base, result>>

\* line 99
Resolve ==
    /\ UNCHANGED <<montvars, gcdvars>>
    /\ pc = "resolve"
    /\ result' = <<MillerRabinResult(n, probablePrime, witness)>>
    /\ pc' = "done"
    /\ UNCHANGED <<n, numRounds, nBits, nSub, r, d, round, base, x, i,
                   probablePrime, witness>>

-----------------------------------------------------------------------------
(* Montgomery reduction context and arithmetic *)

\* the loop of invert: k halvings left
RECURSIVE invertLoop(_, _, _)
invertLoop(inv, k, b) ==
    IF k = 0 THEN inv
    ELSE invertLoop((IF inv % 2 = 1 THEN inv + b ELSE inv) \div 2, k - 1, b)

invert_oneHalvingShort(exp, b) == invertLoop(1, exp - 1, b)

\* the inverse of 2^exp modulo the odd b
invert(exp, b) == invertLoop(1, exp, b)

\* defined for odd b; an even b throws (ContextThrows)
reductionContextFor(b) ==
    LET numBits     == bitLength(b)
        littleShift == numBits + 1
        shift       == littleShift
        rr          == 2^shift
        rInv        == invert(littleShift, b)
        baseInv     == rr - ((((rInv * rr) - 1) \div b) % rr)
    IN  [base |-> b, shift |-> shift, r |-> rr, rInv |-> rInv, baseInv |-> baseInv]

\* (n << ctx.shift) % ctx.base
reduce(v, c) == (v * (2^(c.shift))) % c.base

\* (n * ctx.rInv) % ctx.base
invReduce(v, c) == (v * c.rInv) % c.base

mul_noNegativeCorrection(a, b, c) ==
    IF a = 0 \/ b = 0 THEN 0
    ELSE LET rm1     == c.r - 1
             t       == a * b
             cc      == (((t % (rm1 + 1)) * c.baseInv) % (rm1 + 1)) * c.base
             product == (t - cc) \div (2^(c.shift))
         IN  IF product >= c.base THEN product - c.base ELSE product

\* x & rm1 is x mod r for x >= 0; >> is the floored division by 2^shift
mul(a, b, c) ==
    IF a = 0 \/ b = 0 THEN 0
    ELSE LET rm1     == c.r - 1
             t       == a * b
             cc      == (((t % (rm1 + 1)) * c.baseInv) % (rm1 + 1)) * c.base
             product == (t - cc) \div (2^(c.shift))
         IN  IF product >= c.base THEN product - c.base
             ELSE IF product < 0 THEN product + c.base
             ELSE product

sqr(v, c) == mul(v, v, c) % c.base

\* the for loop of pow: bit k of exp, xx the 2^k-th power of n
RECURSIVE powLoop(_, _, _, _, _, _)
powLoop(res, xx, k, exp, expLen, c) ==
    IF ~(k < expLen) THEN res
    ELSE powLoop(IF (exp \div (2^k)) % 2 = 1 THEN mul(res, xx, c) ELSE res,
                 sqr(xx, c), k + 1, exp, expLen, c)

pow_plainOne(v, exp, c) == powLoop(1, v, 0, exp, bitLength(exp), c)

pow(v, exp, c) == powLoop(reduce(1, c), v, 0, exp, bitLength(exp), c)

InitMont ==
    /\ mpc = "new"
    /\ mbase \in 1..MaxMod
    /\ ma \in 0..(MaxMod - 1) /\ ma < mbase
    /\ mb \in 0..(MaxMod - 1) /\ mb < mbase
    /\ mexp \in 0..MaxExp
    /\ ctx = <<>>
    /\ mra = Null /\ mrb = Null /\ mprod = Null /\ mout = Null

\* line 108: an even base is refused
ContextThrows ==
    /\ mpc = "new" /\ mbase % 2 = 0
    /\ mpc' = "error"
    /\ UNCHANGED <<mbase, ctx, ma, mb, mexp, mra, mrb, mprod, mout>>
    /\ UNCHANGED <<mrvars, gcdvars>>

\* lines 107-121
MakeContext ==
    /\ mpc = "new" /\ mbase % 2 = 1
    /\ ctx' = <<reductionContextFor(mbase)>>
    /\ mpc' = "ctx"
    /\ UNCHANGED <<mbase, ma, mb, mexp, mra, mrb, mprod, mout>>
    /\ UNCHANGED <<mrvars, gcdvars>>

\* both operands into Montgomery form
Reduce ==
    /\ mpc = "ctx"
    /\ mra' = reduce(ma, ctx[1])
    /\ mrb' = reduce(mb, ctx[1])
    /\ mpc' = "reduced"
    /\ UNCHANGED <<mbase, ctx, ma, mb, mexp, mprod, mout>>
    /\ UNCHANGED <<mrvars, gcdvars>>

Mul ==
    /\ mpc = "reduced"
    /\ mprod' = mul(mra, mrb, ctx[1])
    /\ mpc' = "mul"
    /\ UNCHANGED <<mbase, ctx, ma, mb, mexp, mra, mrb, mout>>
    /\ UNCHANGED <<mrvars, gcdvars>>

Pow ==
    /\ mpc = "reduced"
    /\ mprod' = pow(mra, mexp, ctx[1])
    /\ mpc' = "pow"
    /\ UNCHANGED <<mbase, ctx, ma, mb, mexp, mra, mrb, mout>>
    /\ UNCHANGED <<mrvars, gcdvars>>

\* the product or power back out of Montgomery form
InvReduce ==
    /\ mpc \in {"mul", "pow"}
    /\ mout' = invReduce(mprod, ctx[1])
    /\ mpc' = IF mpc = "mul" THEN "mulOut" ELSE "powOut"
    /\ UNCHANGED <<mbase, ctx, ma, mb, mexp, mra, mrb, mprod>>
    /\ UNCHANGED <<mrvars, gcdvars>>

NextMont ==
    \/ ContextThrows
    \/ MakeContext
    \/ Reduce
    \/ Mul
    \/ Pow
    \/ InvReduce

-----------------------------------------------------------------------------
(* gcd *)

\* while (!(v & 1n)) v >>= 1n, for v > 0
RECURSIVE stripTwos(_)
stripTwos(v) == IF v % 2 = 1 THEN v ELSE stripTwos(v \div 2)

gcdReturn_noShift(b, shared) == b

\* b << sharedTwoFactors
gcdReturn(b, shared) == b * (2^shared)

InitGcd ==
    /\ gpc = "entry"
    /\ ga0 \in 0..MaxGcd /\ gb0 \in 0..MaxGcd
    /\ ga = ga0 /\ gb = gb0
    /\ sharedTwoFactors = Null
    /\ gres = Null

\* lines 37-39
GcdShortcut ==
    /\ gpc = "entry" /\ (ga = gb \/ ga = 0 \/ gb = 0)
    /\ gres' = IF ga = gb THEN ga ELSE IF ga = 0 THEN gb ELSE ga
    /\ gpc' = "done"
    /\ UNCHANGED <<ga0, gb0, ga, gb, sharedTwoFactors>>
    /\ UNCHANGED <<mrvars, montvars>>

\* line 42
GcdBegin ==
    /\ gpc = "entry" /\ ~(ga = gb \/ ga = 0 \/ gb = 0)
    /\ sharedTwoFactors' = 0
    /\ gpc' = "shared"
    /\ UNCHANGED <<ga0, gb0, ga, gb, gres>>
    /\ UNCHANGED <<mrvars, montvars>>

\* lines 43-47: one iteration, a and b both even
StripShared ==
    /\ gpc = "shared" /\ ~(ga % 2 = 1 \/ gb % 2 = 1)
    /\ sharedTwoFactors' = sharedTwoFactors + 1
    /\ ga' = ga \div 2
    /\ gb' = gb \div 2
    /\ UNCHANGED <<gpc, ga0, gb0, gres>>
    /\ UNCHANGED <<mrvars, montvars>>

\* line 43: a or b is odd
StripSharedEnd ==
    /\ gpc = "shared" /\ (ga % 2 = 1 \/ gb % 2 = 1)
    /\ gpc' = "loop"
    /\ UNCHANGED <<ga0, gb0, ga, gb, sharedTwoFactors, gres>>
    /\ UNCHANGED <<mrvars, montvars>>

\* lines 49-62: one iteration of the subtraction loop
GcdIterate ==
    /\ gpc = "loop" /\ ga # gb /\ gb > 1
    /\ LET a1 == stripTwos(ga)
           b1 == stripTwos(gb)
       IN  IF b1 > a1
           THEN /\ ga' = b1 - a1
                /\ gb' = a1
                /\ gpc' = "loop"
           ELSE IF a1 = b1
           THEN /\ ga' = a1
                /\ gb' = b1
                /\ gpc' = "return"
           ELSE /\ ga' = a1 - b1
                /\ gb' = b1
                /\ gpc' = "loop"
    /\ UNCHANGED <<ga0, gb0, sharedTwoFactors, gres>>
    /\ UNCHANGED <<mrvars, montvars>>

\* line 49: the loop condition fails
GcdLoopEnd ==
    /\ gpc = "loop" /\ ~(ga # gb /\ gb > 1)
    /\ gpc' = "return"
    /\ UNCHANGED <<ga0, gb0, ga, gb, sharedTwoFactors, gres>>
    /\ UNCHANGED <<mrvars, montvars>>

\* line 65
GcdReturn ==
    /\ gpc = "return"
    /\ gres' = gcdReturn(gb, sharedTwoFactors)
    /\ gpc' = "done"
    /\ UNCHANGED <<ga0, gb0, ga, gb, sharedTwoFactors>>
    /\ UNCHANGED <<mrvars, montvars>>

NextGcd ==
    \/ GcdShortcut
    \/ GcdBegin
    \/ StripShared
    \/ StripSharedEnd
    \/ GcdIterate
    \/ GcdLoopEnd
    \/ GcdReturn

-----------------------------------------------------------------------------
IdleMont ==
    /\ mpc = "idle" /\ mbase = Null /\ ctx = <<>>
    /\ ma = Null /\ mb = Null /\ mexp = Null
    /\ mra = Null /\ mrb = Null /\ mprod = Null /\ mout = Null

IdleGcd ==
    /\ gpc = "idle" /\ ga0 = Null /\ gb0 = Null /\ ga = Null /\ gb = Null
    /\ sharedTwoFactors = Null /\ gres = Null

IdleMR ==
    /\ pc = "idle" /\ n = Null /\ numRounds = Null
    /\ nBits = Null /\ nSub = Null /\ r = Null /\ d = Null
    /\ round = Null /\ base = Null /\ x = Null /\ i = Null
    /\ probablePrime = TRUE /\ witness = Null
    /\ result = <<>>

(* One call of testPrimality *)
Init == InitMR /\ IdleMont /\ IdleGcd

Next ==
    \/ SmallComposite
    \/ SmallPrime
    \/ Setup
    \/ ForTest
    \/ SampleRetain
    \/ SampleRetry
    \/ FirstPower
    \/ Square
    \/ LoopEnd
    \/ AfterLoop
    \/ Resolve

Spec == Init /\ [][Next]_vars

\* The code runs on without suspension, and a fair randomness source delivers
\* every bit string again and again: a value the sampler keeps is drawn at last
\* whenever there is one.
FairInit == Init /\ n <= MaxFairN

FairSpec == FairInit /\ [][Next]_vars /\ WF_vars(Next) /\ WF_vars(SampleRetain)

(* The Montgomery engine *)
MontInit == IdleMR /\ InitMont /\ IdleGcd

MontSpec == MontInit /\ [][NextMont]_vars

(* gcd; the function runs on without suspension *)
GcdInit == IdleMR /\ IdleMont /\ InitGcd

GcdSpec == GcdInit /\ [][NextGcd]_vars /\ WF_vars(NextGcd)

-----------------------------------------------------------------------------
(* Reference arithmetic for the properties, independent of the code above *)

IsPrime(v) == v >= 2 /\ \A k \in 2..(v - 1) : v % k # 0

\* b^e mod m by squaring
RECURSIVE RefExp(_, _, _)
RefExp(b, e, m) ==
    IF e = 0 THEN 1 % m
    ELSE LET h == RefExp(b, e \div 2, m)
         IN  IF e % 2 = 0 THEN (h * h) % m ELSE (((h * h) % m) * b) % m

\* the k with v = 2^k * odd, for v > 0
Val2(v) == CHOOSE k \in 0..v : v % (2^k) = 0 /\ v % (2^(k + 1)) # 0

\* b^(d*2^j) mod nn, where nn - 1 = d * 2^Val2(nn - 1)
PowerAt(b, nn, j) == RefExp(b, ((nn - 1) \div (2^Val2(nn - 1))) * (2^j), nn)

\* the round of base b fails: b^d is neither 1 nor nn-1, and the squarings
\* reach 1 before nn-1 or never reach nn-1
ProvesComposite(b, nn) ==
    LET rr == Val2(nn - 1) IN
    /\ PowerAt(b, nn, 0) \notin {1, nn - 1}
    /\ \/ \E j \in 1..rr : /\ PowerAt(b, nn, j) = 1
                           /\ \A k \in 1..(j - 1) : PowerAt(b, nn, k) # nn - 1
       \/ \A j \in 1..rr : PowerAt(b, nn, j) # nn - 1

\* b is a strong liar for 91 = 7 * 13: 90 = 2 * 45 and b^45 is 1 or -1
StrongLiar91(b) == RefExp(b, 45, 91) \in {1, 90}

\* b^(nn-1) is 1 or -1 modulo nn
FermatLiar(b, nn) == RefExp(b, nn - 1, nn) \in {1, nn - 1}

RECURSIVE Euclid(_, _)
Euclid(a, b) == IF b = 0 THEN a ELSE Euclid(b, a % b)

Divides(k, v) == k > 0 /\ v % k = 0

Resolved == pc = "done" /\ Len(result) = 1

-----------------------------------------------------------------------------
(* C1: a prime is never labelled composite. For every prime n, at every    *)
(* point of the test the flag is true and the witness null, and the        *)
(* resolved result is {n, probablePrime: true, witness: null}.             *)
C1_PrimeNeverComposite ==
    IsPrime(n) =>
        /\ probablePrime = TRUE
        /\ witness = Null
        /\ (pc = "done" => result = <<MillerRabinResult(n, TRUE, Null)>>)

\* a prime >= 5 resolved after all its rounds ran
C1_Witness ==
    /\ Resolved /\ IsPrime(n) /\ n >= 5
    /\ round = numRounds
    /\ result[1].probablePrime = TRUE

(* C2 as stated: testPrimality(91, numRounds) resolves with probablePrime  *)
(* false and a non-null witness for every sequence of sampled bases.       *)
C2_Original ==
    (Resolved /\ n = 91) =>
        (result[1].probablePrime = FALSE /\ result[1].witness # Null)

(* C2: for n = 91 the result is {false, witness b} with b the first        *)
(* sampled base that is not a strong liar for 91 (b^45 mod 91 not in       *)
(* {1, 90}); it is {true, null} exactly when every sampled base is a       *)
(* strong liar. Every round that passed had a strong liar as its base.     *)
C2_Composite91UnlessLiars ==
    n = 91 =>
        /\ (pc = "for" /\ round > 0) => StrongLiar91(base)
        /\ Resolved =>
              \/ /\ result = <<MillerRabinResult(91, FALSE, base)>>
                 /\ base \in 3..89
                 /\ ~StrongLiar91(base)
                 /\ round < numRounds
              \/ /\ result = <<MillerRabinResult(91, TRUE, Null)>>
                 /\ StrongLiar91(base)
                 /\ round = numRounds

\* 91 reported composite with its witness
C2_Witness ==
    /\ Resolved /\ n = 91
    /\ result[1].probablePrime = FALSE
    /\ result[1].witness \in 3..89

(* C3 as stated: every started test completes (under FairSpec, with a fair *)
(* randomness source), and n = 4 resolves with probablePrime = false.      *)
C3_EveryTestCompletes ==
    /\ <>(pc = "done")
    /\ [](pc = "done" /\ n = 4 => result = <<MillerRabinResult(4, FALSE, Null)>>)

\* What holds instead under FairSpec: every test of an n other than 4 completes.
CompletesUnlessFour == (n # 4) ~> (pc = "done")

(* C4 as stated: the sampler retains a drawn value exactly when it lies in *)
(* [2, n-2].                                                               *)
C4_RetainsExactlyRange ==
    [][pc = "sample" => (pc' = "test" <=> base' \in 2..(n - 2))]_vars

(* C9: rounds run in order and the first failing round ends the test. Once *)
(* the flag is false nothing but resolving remains, the witness is the     *)
(* base of the round that failed, that base proves compositeness, and the  *)
(* round counter stays at that round; every round that passed had a base   *)
(* that does not prove compositeness; if no round fails all numRounds      *)
(* rounds ran and the result is {true, null}. A witness is non-null only   *)
(* if probablePrime is false.                                              *)
C9_FirstFailureWins ==
    (n >= 4 /\ pc # "start") =>
        /\ probablePrime = FALSE =>
              /\ pc \in {"resolve", "done"}
              /\ witness = base
              /\ base \in 2..(n - 2)
              /\ round < numRounds
              /\ ProvesComposite(base, n)
        /\ probablePrime = TRUE => witness = Null
        /\ (pc = "for" /\ round > 0) => ~ProvesComposite(base, n)
        /\ pc = "done" =>
              /\ result = <<MillerRabinResult(n, probablePrime, witness)>>
              /\ probablePrime = TRUE => round = numRounds
              /\ result[1].witness # Null => result[1].probablePrime = FALSE

\* a second round fails after a first round passed
C9_Witness ==
    /\ Resolved /\ n >= 4
    /\ round = 1 /\ numRounds > 1
    /\ result[1].probablePrime = FALSE
    /\ result[1].witness = base

(* C10 as stated: an even n >= 4 is never reported as a probable prime.    *)
C10_Original ==
    (Resolved /\ n >= 4 /\ n % 2 = 0) => result[1].probablePrime = FALSE

(* C10: for even n >= 4 the result is {false, witness b} with b the first  *)
(* sampled base whose b^(n-1) mod n is neither 1 nor n-1; it is            *)
(* {true, null} exactly when every sampled base has b^(n-1) mod n in       *)
(* {1, n-1}.                                                               *)
C10_EvenUnlessFermatLiars ==
    (n >= 4 /\ n % 2 = 0) =>
        /\ (pc = "for" /\ round > 0) => FermatLiar(base, n)
        /\ Resolved =>
              \/ /\ result = <<MillerRabinResult(n, FALSE, base)>>
                 /\ base \in 3..(n - 2)
                 /\ ~FermatLiar(base, n)
              \/ /\ result = <<MillerRabinResult(n, TRUE, Null)>>
                 /\ FermatLiar(base, n)
                 /\ round = numRounds

\* an even number reported composite in its first round
C10_Witness ==
    /\ Resolved /\ n >= 4 /\ n % 2 = 0
    /\ round = 0
    /\ result[1].probablePrime = FALSE
    /\ result[1].witness = base

-----------------------------------------------------------------------------
HasContext == mpc \notin {"idle", "new", "error"} /\ Len(ctx) = 1

(* C5 as stated: base * baseInv = -1 (mod r).                              *)
C5_Original ==
    HasContext => (ctx[1].base * ctx[1].baseInv) % ctx[1].r = ctx[1].r - 1

(* C5: for every odd base >= 1 the context has r = 2^shift > base and      *)
(* base * baseInv = 1 (mod r): baseInv is the inverse of base modulo r.    *)
C5_BaseInvIsInverse ==
    HasContext =>
        /\ ctx[1].base = mbase
        /\ ctx[1].r = 2^(ctx[1].shift)
        /\ ctx[1].r > mbase
        /\ ctx[1].baseInv \in 1..(ctx[1].r - 1)
        /\ (ctx[1].base * ctx[1].baseInv) % ctx[1].r = 1

\* a context built for an odd modulus above 2
C5_Witness == HasContext /\ mpc = "ctx" /\ mbase > 2

(* C6: for odd m > 2 and a, b in [0, m): reduce and invReduce are          *)
(* inverse, mul(reduce(a), reduce(b)) lies in [0, m), and invReduce of it  *)
(* is (a*b) mod m, also when a or b is 0.                                  *)
C6_MulHomomorphism ==
    (HasContext /\ mbase > 2) =>
        /\ mpc # "ctx" =>
              /\ mra \in 0..(mbase - 1)
              /\ invReduce(mra, ctx[1]) = ma
              /\ invReduce(mrb, ctx[1]) = mb
        /\ mpc \in {"mul", "mulOut"} => mprod \in 0..(mbase - 1)
        /\ mpc = "mulOut" => mout = (ma * mb) % mbase

\* a product of two non-zero operands taken out of Montgomery form
C6_Witness ==
    /\ HasContext /\ mbase > 2 /\ mpc = "mulOut"
    /\ ma > 1 /\ mb > 1 /\ ma * mb > mbase

(* C7: for odd m > 2, a in [0, m) and e >= 0,                              *)
(* invReduce(pow(reduce(a), e)) = a^e mod m, and pow(x, 0) is the          *)
(* Montgomery form of 1 for every x, x = 0 included.                       *)
C7_PowCorrect ==
    (HasContext /\ mbase > 2) =>
        /\ mpc \in {"pow", "powOut"} =>
              /\ mprod \in 0..(mbase - 1)
              /\ mexp = 0 => mprod = (2^(ctx[1].shift)) % mbase
        /\ mpc = "powOut" => mout = RefExp(ma, mexp, mbase)

\* a power with an exponent of several bits
C7_Witness ==
    /\ HasContext /\ mbase > 2 /\ mpc = "powOut"
    /\ ma > 1 /\ mexp >= 3

-----------------------------------------------------------------------------
(* C8: gcd terminates, and its result is the Euclidean gcd of the          *)
(* arguments in either order; gcd(a, 0) = a, gcd(a, a) = a; for a, b > 0   *)
(* the result divides both and no larger integer does.                     *)
C8_GcdCorrect ==
    /\ <>(gpc = "done")
    /\ [](gpc = "done" =>
            /\ gres = Euclid(ga0, gb0)
            /\ gres = Euclid(gb0, ga0)
            /\ gb0 = 0 => gres = ga0
            /\ ga0 = gb0 => gres = ga0
            /\ (ga0 > 0 /\ gb0 > 0) =>
                  /\ Divides(gres, ga0) /\ Divides(gres, gb0)
                  /\ \A k \in (gres + 1)..ga0 :
                        ~(Divides(k, ga0) /\ Divides(k, gb0)))

\* a call that went through the shared-twos and the subtraction loops
C8_Witness ==
    /\ gpc = "done" /\ ga0 > 0 /\ gb0 > 0 /\ ga0 # gb0
    /\ sharedTwoFactors > 0 /\ gres > 2^sharedTwoFactors

=============================================================================
